---- MODULE Spec2Model ----
(***************************************************************************)
(* DatabaseStorage (src/server/db-storage.ts): the storage gateway of the  *)
(* loan-brokerage application, over a relational engine (drizzle) and the  *)
(* bcrypt credential functions.                                            *)
(*                                                                         *)
(* The five tables are sequences of rows in insertion order.  A call that  *)
(* builds its SET clause before awaiting the engine (the update and assign *)
(* operations, which read the clock with `new Date()`) is two steps: the   *)
(* call puts the request in `pending`, the engine executes it atomically   *)
(* later.  The other calls carry nothing that depends on the moment of the *)
(* call and are one engine step.                                           *)
(***************************************************************************)
EXTENDS Integers, Sequences, FiniteSets, Bags, TLC

VARIABLES
    users,             \* table users
    loanApplications,  \* table loan_applications
    dsaPartners,       \* table dsa_partners
    leads,             \* table leads
    contactQueries,    \* table contact_queries
    clock,             \* the millisecond the wall clock shows (Date)
    pending,           \* bag of engine requests issued by a call, not yet executed
    ret,               \* how the most recently completed call ended
    boot               \* per process start: where initializeDefaultUsers is

vars == <<users, loanApplications, dsaPartners, leads, contactQueries,
          clock, pending, ret, boot>>

(***************************************************************************)
(* Bounds of the model.                                                    *)
(***************************************************************************)
MaxLoad == 3       \* rows created by callers plus update/assign calls in flight
MaxClock == 1      \* last millisecond the clock reaches
MaxStarts == 2     \* process starts (each constructs a DatabaseStorage)

Min(a, b) == IF a < b THEN a ELSE b

NULL == "NULL"          \* SQL NULL in a text column
NullTime == 0 - 1       \* SQL NULL in a timestamp column

(***************************************************************************)
(* Object spread {...a, ...b}: b's properties override a's.                *)
(***************************************************************************)
Spread(a, b) ==
    [f \in DOMAIN a \cup DOMAIN b |-> IF f \in DOMAIN b THEN b[f] ELSE a[f]]

\* JavaScript `x.f || dflt`: dflt when f is missing or the empty string.
OrElse(x, f, dflt) == IF f \in DOMAIN x /\ x[f] # "" THEN x[f] ELSE dflt

(***************************************************************************)
(* Credentials.  A string of the password column is a record: fmt tells    *)
(* whether it parses as a bcrypt hash ("$2b$10$") or is any other text     *)
(* ("raw"); bytes is the text itself, or for a hash the key material the   *)
(* digest was computed from (the digest is one-way: nothing reads bytes    *)
(* back out of a hash but bcryptCompare).                                  *)
(***************************************************************************)
Raw(b) == [fmt |-> "raw", salt |-> "", bytes |-> b]

\* bcrypt's key schedule reads at most the first 72 bytes of the password.
BcryptMaxBytes == 72

Truncate(b) == SubSeq(b, 1, Min(Len(b), BcryptMaxBytes))

Salts == {"s1", "s2"}

\* bcrypt.hash(plaintext, 10) with the salt the library drew.
bcryptHash(plaintext, salt) ==
    [fmt |-> "$2b$10$", salt |-> salt, bytes |-> Truncate(plaintext.bytes)]

\* bcrypt.compare(plaintext, stored): false for a stored string that is no hash.
bcryptCompare(plaintext, stored) ==
    /\ stored.fmt = "$2b$10$"
    /\ bcryptHash(plaintext, stored.salt) = stored

(***************************************************************************)
(* The persistence engine and the schema (shared/schema.ts, not part of    *)
(* this file): column defaults, generated identifiers and constraints.     *)
(***************************************************************************)
Limit(rows, n) == SubSeq(rows, 1, Min(Len(rows), n))

LoanStatuses == {"pending", "approved", "rejected"}
KycStatuses == {"pending", "verified", "rejected"}
LeadStatuses == {"new", "contacted", "closed"}
LeadSources == {"website", "referral"}
QueryStatuses == {"new", "resolved"}

\* The row a table gives an insert that names no column.
Defaults(name, id, now) ==
    CASE name = "users" ->
           [id |-> id, username |-> NULL, email |-> NULL, password |-> Raw(<<>>),
            role |-> "user", fullName |-> NULL, isActive |-> TRUE, updatedAt |-> now]
      [] name = "loanApplications" ->
           [id |-> id, userId |-> NULL, assignedDsaId |-> NULL, status |-> "pending",
            amount |-> 0, updatedAt |-> now]
      [] name = "dsaPartners" ->
           [id |-> id, userId |-> NULL, kycStatus |-> "pending", city |-> NULL,
            updatedAt |-> now]
      [] name = "leads" ->
           [id |-> id, name |-> NULL, source |-> "website", status |-> "new",
            assignedDsaId |-> NULL, assignedAt |-> NullTime, updatedAt |-> now]
      [] name = "contactQueries" ->
           [id |-> id, message |-> NULL, status |-> "new", updatedAt |-> now]

\* Mutant of RowOk: columns that accept any value.
RowOkAny(name, row) == TRUE

\* NOT NULL and enumeration constraints of one row.
RowOk(name, row) ==
    CASE name = "users" -> row.username # NULL /\ row.email # NULL
      [] name = "loanApplications" -> row.status \in LoanStatuses
      [] name = "dsaPartners" -> row.kycStatus \in KycStatuses
      [] name = "leads" -> row.status \in LeadStatuses /\ row.source \in LeadSources
      [] name = "contactQueries" -> row.status \in QueryStatuses

\* UNIQUE constraints of a table: users.username and users.email.
Unique(name, table) ==
    name = "users" =>
        \A i, j \in 1..Len(table) :
            i # j => /\ table[i].username # table[j].username
                     /\ table[i].email # table[j].email

Constraints(name, table) ==
    /\ \A i \in 1..Len(table) : RowOk(name, table[i])
    /\ Unique(name, table)

\* The identifier the engine generates for a new row.
NewId(table) == Len(table) + 1

\* Insert-one-returning: ok is FALSE when a constraint rejects the row.
Insert(name, table, values, now) ==
    LET row == Spread(Defaults(name, NewId(table), now), values)
        new == Append(table, [f \in DOMAIN Defaults(name, 0, 0) |-> row[f]])
    IN  IF Constraints(name, new)
        THEN [ok |-> TRUE, table |-> new, rows |-> <<new[Len(new)]>>]
        ELSE [ok |-> FALSE, table |-> table, rows |-> <<>>]

\* Mutant of UpdateWhere: the merge the other way round, {...set, ...row}.
UpdateWhereRowWins(table, set, id) ==
    [i \in 1..Len(table) |->
        IF table[i].id = id
        THEN [f \in DOMAIN table[i] |-> Spread(set, table[i])[f]]
        ELSE table[i]]

\* UPDATE ... SET set WHERE id = id: the rows as they are after the write.
UpdateWhere(table, set, id) ==
    [i \in 1..Len(table) |->
        IF table[i].id = id
        THEN [f \in DOMAIN table[i] |-> IF f \in DOMAIN set THEN set[f] ELSE table[i][f]]
        ELSE table[i]]

\* Update-where-returning: rows is empty when nothing matched.
Update(name, table, set, id) ==
    LET new == UpdateWhere(table, set, id)
    IN  IF Constraints(name, new)
        THEN [ok |-> TRUE, table |-> new,
              rows |-> SelectSeq(new, LAMBDA r : r.id = id)]
        ELSE [ok |-> FALSE, table |-> table, rows |-> <<>>]

RowCount ==
    Len(users) + Len(loanApplications) + Len(dsaPartners) + Len(leads)
    + Len(contactQueries)

(***************************************************************************)
(* How a call ends: status is "ok" when it resolves and names the error    *)
(* when it throws; rows is the value it resolves to, an entity as a        *)
(* one-row sequence (empty for null/undefined).                            *)
(***************************************************************************)
Return(rows) == [status |-> "ok", rows |-> rows]

Throw(error) == [status |-> error, rows |-> <<>>]

\* Mutant of ResultOrNotFound: the length check left out, result[0] returned.
ResultOrUndefined(res) ==
    IF ~res.ok THEN Throw("PersistenceFailure")
    ELSE Return(IF Len(res.rows) = 0 THEN <<>> ELSE <<res.rows[1]>>)

\* The tail every update/assign operation shares:
\*   if (result.length === 0) throw new Error("... not found"); return result[0];
ResultOrNotFound(res) ==
    IF ~res.ok THEN Throw("PersistenceFailure")
    ELSE IF Len(res.rows) = 0 THEN Throw("NotFound")
    ELSE Return(<<res.rows[1]>>)

\* The tail of every create operation: return result[0].
ResultOfInsert(res) ==
    IF ~res.ok THEN Throw("PersistenceFailure") ELSE Return(<<res.rows[1]>>)

Ids == {1, 2}

Load == RowCount + BagCardinality(pending)

Request(op, id, set) == [op |-> op, id |-> id, set |-> set]

\* A call reached its await: the request is on its way to the engine.
Issue(op, id, set) ==
    /\ Load < MaxLoad
    /\ pending' = pending (+) SetToBag({Request(op, id, set)})

Tick ==
    /\ clock < MaxClock
    /\ clock' = clock + 1
    /\ UNCHANGED <<users, loanApplications, dsaPartners, leads, contactQueries,
                   pending, ret, boot>>

(***************************************************************************)
(* User operations                                                         *)
(***************************************************************************)
ByteStrings ==
    {<<1>>, [i \in 1..73 |-> IF i = 73 THEN 1 ELSE 7],
     [i \in 1..73 |-> IF i = 73 THEN 2 ELSE 7]}

Plaintexts == {Raw(b) : b \in ByteStrings}

Usernames == {"admin", "bob"}
Emails == {"admin@jsmf.com", "bob@jsmf.com"}

\* InsertUser values: role is optional; a caller may also pass isActive.
InsertUsers ==
    LET required == [username : Usernames, email : Emails, password : Plaintexts,
                     fullName : {"Bob"}]
        optional == {<<>>, [role |-> "admin", isActive |-> FALSE]}
    IN  {Spread(r, o) : r \in required, o \in optional}

getUserByUsername(username) ==
    Limit(SelectSeq(users, LAMBDA u : u.username = username), 1)

\* The values createUser hands to the insert.
createUserValues(insertUser, hashedPassword) ==
    Spread(insertUser,
           [password |-> hashedPassword,
            role |-> OrElse(insertUser, "role", "user"),
            isActive |-> TRUE])

createUser(insertUser) ==
    /\ Load < MaxLoad
    /\ \E salt \in Salts :
          LET hashedPassword == bcryptHash(insertUser.password, salt)
              res == Insert("users", users,
                            createUserValues(insertUser, hashedPassword), clock)
          IN  /\ users' = res.table
              /\ ret' = ResultOfInsert(res)
    /\ UNCHANGED <<loanApplications, dsaPartners, leads, contactQueries,
                   clock, pending, boot>>

\* Partial<User> values a caller passes to updateUser.
UserPatches ==
    {Spread(Spread(a, b), c) :
        a \in {<<>>, [password |-> Raw(<<2>>)]},
        b \in {<<>>, [role |-> "admin"]},
        c \in {<<>>, [fullName |-> "Robert"]}}

\* The SET clause of the generic updates: { ...updates, updatedAt: new Date() }.
updateSet(updates, now) == Spread(updates, [updatedAt |-> now])

updateUser(id, updates) ==
    /\ Issue("updateUser", id, updateSet(updates, clock))
    /\ UNCHANGED <<users, loanApplications, dsaPartners, leads, contactQueries,
                   clock, ret, boot>>

updateUserResult(r) ==
    /\ r.op = "updateUser"
    /\ LET res == Update("users", users, r.set, r.id)
       IN  /\ users' = res.table
           /\ ret' = ResultOrNotFound(res)
    /\ pending' = pending (-) SetToBag({r})
    /\ UNCHANGED <<loanApplications, dsaPartners, leads, contactQueries, clock, boot>>

\* What authenticateUser resolves to: the user as one row, or none (null).
authenticateUserRows(username, password) ==
    LET user == getUserByUsername(username)
    IN  IF Len(user) = 0 THEN <<>>
        ELSE IF bcryptCompare(password, user[1].password) THEN user ELSE <<>>

authenticateUser(username, password) ==
    /\ ret' = Return(authenticateUserRows(username, password))
    /\ UNCHANGED <<users, loanApplications, dsaPartners, leads, contactQueries,
                   clock, pending, boot>>

(***************************************************************************)
(* Bootstrap: the constructor starts initializeDefaultUsers and does not   *)
(* await it.  Each process start runs the select, then (admin absent) the  *)
(* hash and the insert; the catch block logs whatever the engine throws.   *)
(***************************************************************************)
Starts == 1..MaxStarts

Admin123 == Raw(<<97, 100, 109, 105, 110, 49, 50, 51>>)

adminValues(hashedPassword) ==
    [username |-> "admin", email |-> "admin@jsmf.com", password |-> hashedPassword,
     role |-> "admin", fullName |-> "System Administrator", isActive |-> TRUE]

\* Mutant of Catch: no catch block, the failure leaves the function.
CatchNothing(failed) == IF failed THEN "propagated" ELSE "none"

\* try { ... } catch (error) { console.error(...) }: what becomes of a failure.
Catch(failed) == IF failed THEN "logged" ELSE "none"

initializeDefaultUsers(p) ==
    /\ boot[p].pc = "select"
    /\ LET existingAdmin == Limit(SelectSeq(users, LAMBDA u : u.username = "admin"), 1)
       IN  boot' = [boot EXCEPT ![p].pc =
                       IF Len(existingAdmin) = 0 THEN "insert" ELSE "done"]
    /\ UNCHANGED <<users, loanApplications, dsaPartners, leads, contactQueries,
                   clock, pending, ret>>

initializeDefaultUsersInsert(p) ==
    /\ boot[p].pc = "insert"
    /\ \E salt \in Salts :
          LET hashedPassword == bcryptHash(Admin123, salt)
              res == Insert("users", users, adminValues(hashedPassword), clock)
          IN  /\ users' = res.table
              /\ boot' = [boot EXCEPT ![p] = [pc |-> "done", error |-> Catch(~res.ok)]]
    /\ UNCHANGED <<loanApplications, dsaPartners, leads, contactQueries,
                   clock, pending, ret>>

(***************************************************************************)
(* Loan application operations                                             *)
(***************************************************************************)
createLoanApplicationValues(application) == Spread(application, [status |-> "pending"])

createLoanApplication(application) ==
    /\ Load < MaxLoad
    /\ LET res == Insert("loanApplications", loanApplications,
                         createLoanApplicationValues(application), clock)
       IN  /\ loanApplications' = res.table
           /\ ret' = ResultOfInsert(res)
    /\ UNCHANGED <<users, dsaPartners, leads, contactQueries, clock, pending, boot>>

updateLoanApplication(id, updates) ==
    /\ Issue("updateLoanApplication", id, updateSet(updates, clock))
    /\ UNCHANGED <<users, loanApplications, dsaPartners, leads, contactQueries,
                   clock, ret, boot>>

updateLoanApplicationResult(r) ==
    /\ r.op = "updateLoanApplication"
    /\ LET res == Update("loanApplications", loanApplications, r.set, r.id)
       IN  /\ loanApplications' = res.table
           /\ ret' = ResultOrNotFound(res)
    /\ pending' = pending (-) SetToBag({r})
    /\ UNCHANGED <<users, dsaPartners, leads, contactQueries, clock, boot>>

(***************************************************************************)
(* DSA partner operations                                                  *)
(***************************************************************************)
createDsaPartnerValues(partner) == Spread(partner, [kycStatus |-> "pending"])

createDsaPartner(partner) ==
    /\ Load < MaxLoad
    /\ LET res == Insert("dsaPartners", dsaPartners,
                         createDsaPartnerValues(partner), clock)
       IN  /\ dsaPartners' = res.table
           /\ ret' = ResultOfInsert(res)
    /\ UNCHANGED <<users, loanApplications, leads, contactQueries, clock, pending, boot>>

updateDsaPartner(id, updates) ==
    /\ Issue("updateDsaPartner", id, updateSet(updates, clock))
    /\ UNCHANGED <<users, loanApplications, dsaPartners, leads, contactQueries,
                   clock, ret, boot>>

updateDsaPartnerResult(r) ==
    /\ r.op = "updateDsaPartner"
    /\ LET res == Update("dsaPartners", dsaPartners, r.set, r.id)
       IN  /\ dsaPartners' = res.table
           /\ ret' = ResultOrNotFound(res)
    /\ pending' = pending (-) SetToBag({r})
    /\ UNCHANGED <<users, loanApplications, leads, contactQueries, clock, boot>>

(***************************************************************************)
(* Lead operations                                                         *)
(***************************************************************************)
\* Mutant of createLeadValues: the caller's values spread last.
createLeadValuesCallerWins(lead) ==
    Spread([source |-> OrElse(lead, "source", "website"), status |-> "new"], lead)

createLeadValues(lead) ==
    Spread(lead, [source |-> OrElse(lead, "source", "website"), status |-> "new"])

createLead(lead) ==
    /\ Load < MaxLoad
    /\ LET res == Insert("leads", leads, createLeadValues(lead), clock)
       IN  /\ leads' = res.table
           /\ ret' = ResultOfInsert(res)
    /\ UNCHANGED <<users, loanApplications, dsaPartners, contactQueries,
                   clock, pending, boot>>

\* Mutant of getLeadsByDsaRows: the where clause left out.
getLeadsByDsaAll(dsaId) == leads

\* eq(leads.assignedDsaId, dsaId): SQL equality is never true of NULL.
getLeadsByDsaRows(dsaId) ==
    SelectSeq(leads, LAMBDA l : l.assignedDsaId # NULL /\ l.assignedDsaId = dsaId)

getLeadsByDsa(dsaId) ==
    /\ ret' = Return(getLeadsByDsaRows(dsaId))
    /\ UNCHANGED <<users, loanApplications, dsaPartners, leads, contactQueries,
                   clock, pending, boot>>

\* Mutant of assignSet: the assignment timestamp left out of the write.
assignSetNoTimestamp(dsaId, now, later) ==
    [assignedDsaId |-> dsaId, updatedAt |-> later]

\* The SET clause of assignLeadToDsa; its two `new Date()` are read one after
\* the other, so the second may already show the next millisecond.
assignSet(dsaId, now, later) ==
    [assignedDsaId |-> dsaId, assignedAt |-> now, updatedAt |-> later]

assignLeadToDsa(leadId, dsaId) ==
    /\ \E later \in {clock, Min(clock + 1, MaxClock)} :
          /\ Issue("assignLeadToDsa", leadId, assignSet(dsaId, clock, later))
          /\ clock' = later
    /\ UNCHANGED <<users, loanApplications, dsaPartners, leads, contactQueries,
                   ret, boot>>

assignLeadToDsaResult(r) ==
    /\ r.op = "assignLeadToDsa"
    /\ LET res == Update("leads", leads, r.set, r.id)
       IN  /\ leads' = res.table
           /\ ret' = ResultOrNotFound(res)
    /\ pending' = pending (-) SetToBag({r})
    /\ UNCHANGED <<users, loanApplications, dsaPartners, contactQueries, clock, boot>>

updateLead(id, updates) ==
    /\ Issue("updateLead", id, updateSet(updates, clock))
    /\ UNCHANGED <<users, loanApplications, dsaPartners, leads, contactQueries,
                   clock, ret, boot>>

updateLeadResult(r) ==
    /\ r.op = "updateLead"
    /\ LET res == Update("leads", leads, r.set, r.id)
       IN  /\ leads' = res.table
           /\ ret' = ResultOrNotFound(res)
    /\ pending' = pending (-) SetToBag({r})
    /\ UNCHANGED <<users, loanApplications, dsaPartners, contactQueries, clock, boot>>

(***************************************************************************)
(* Contact query operations                                                *)
(***************************************************************************)
createContactQueryValues(query) == Spread(query, [status |-> "new"])

createContactQuery(query) ==
    /\ Load < MaxLoad
    /\ LET res == Insert("contactQueries", contactQueries,
                         createContactQueryValues(query), clock)
       IN  /\ contactQueries' = res.table
           /\ ret' = ResultOfInsert(res)
    /\ UNCHANGED <<users, loanApplications, dsaPartners, leads, clock, pending, boot>>

\* updateContactQuery passes the caller's values as they are: .set(updates).
updateContactQuery(id, updates) ==
    /\ Issue("updateContactQuery", id, updates)
    /\ UNCHANGED <<users, loanApplications, dsaPartners, leads, contactQueries,
                   clock, ret, boot>>

updateContactQueryResult(r) ==
    /\ r.op = "updateContactQuery"
    /\ LET res == Update("contactQueries", contactQueries, r.set, r.id)
       IN  /\ contactQueries' = res.table
           /\ ret' = ResultOrNotFound(res)
    /\ pending' = pending (-) SetToBag({r})
    /\ UNCHANGED <<users, loanApplications, dsaPartners, leads, clock, boot>>

(***************************************************************************)
(* Specifications.  The tables of the five families are disjoint and no    *)
(* operation touches two of them, so each specification draws the calls of *)
(* the operations it is about; the inputs are small sets of caller values. *)
(***************************************************************************)
Init ==
    /\ users = <<>>
    /\ loanApplications = <<>>
    /\ dsaPartners = <<>>
    /\ leads = <<>>
    /\ contactQueries = <<>>
    /\ clock = 0
    /\ pending = EmptyBag
    /\ ret = Return(<<>>)
    /\ boot = [p \in Starts |-> [pc |-> "select", error |-> "none"]]

\* Users: creation, update and credential verification.
NextUser ==
    \/ \E insertUser \in InsertUsers : createUser(insertUser)
    \/ \E id \in Ids, updates \in UserPatches : updateUser(id, updates)
    \/ \E r \in BagToSet(pending) : updateUserResult(r)
    \/ \E username \in Usernames, password \in Plaintexts :
          authenticateUser(username, password)

SpecUser == Init /\ [][NextUser]_vars

\* Process starts racing each other and the user operations.
BootUsers ==
    {[username |-> "bob", email |-> e, password |-> Raw(<<1>>), fullName |-> "Bob"] :
        e \in Emails}

BootPatches == {[password |-> Raw(<<2>>)], [fullName |-> "Robert"]}

NextBoot ==
    \/ \E p \in Starts : initializeDefaultUsers(p)
    \/ \E p \in Starts : initializeDefaultUsersInsert(p)
    \/ \E insertUser \in BootUsers : createUser(insertUser)
    \/ \E id \in Ids, updates \in BootPatches : updateUser(id, updates)
    \/ \E r \in BagToSet(pending) : updateUserResult(r)

SpecBoot == Init /\ [][NextBoot]_vars

\* Leads: assignment and update calls racing each other, with the clock.
DsaIds == {"partner-42", "partner-7"}

LeadPatches == {[status |-> "contacted"], [assignedDsaId |-> "partner-7"]}

NextLead ==
    \/ Tick
    \/ createLead([name |-> "Asha"])
    \/ \E leadId \in Ids : assignLeadToDsa(leadId, "partner-42")
    \/ \E r \in BagToSet(pending) : assignLeadToDsaResult(r)
    \/ \E id \in Ids, updates \in LeadPatches : updateLead(id, updates)
    \/ \E r \in BagToSet(pending) : updateLeadResult(r)

SpecLead == Init /\ [][NextLead]_vars

\* Leads: the read by partner after creations, assignments and updates.
InsertLeads ==
    {[name |-> "Asha"], [name |-> "Asha", source |-> "referral", status |-> "closed"]}

ReassignPatches == {[assignedDsaId |-> "partner-7"], [assignedDsaId |-> NULL]}

NextLeadRead ==
    \/ \E lead \in InsertLeads : createLead(lead)
    \/ \E leadId \in Ids : assignLeadToDsa(leadId, "partner-42")
    \/ \E r \in BagToSet(pending) : assignLeadToDsaResult(r)
    \/ \E id \in Ids, updates \in ReassignPatches : updateLead(id, updates)
    \/ \E r \in BagToSet(pending) : updateLeadResult(r)
    \/ \E dsaId \in DsaIds : getLeadsByDsa(dsaId)

SpecLeadRead == Init /\ [][NextLeadRead]_vars

\* The create operations of the five families.
CreateUsers ==
    {Spread([username |-> "bob", email |-> "bob@jsmf.com", password |-> Raw(<<1>>),
             fullName |-> "Bob"], o) :
        o \in {<<>>, [role |-> ""], [role |-> "admin"], [isActive |-> FALSE]}}

InsertLoanApplications ==
    {[userId |-> "u1", amount |-> 100],
     [userId |-> "u1", amount |-> 100, status |-> "approved"]}

InsertDsaPartners ==
    {[userId |-> "u1", city |-> "Bhopal"],
     [userId |-> "u1", city |-> "Bhopal", kycStatus |-> "verified"]}

InsertContactQueries ==
    {[message |-> "hello"], [message |-> "hello", status |-> "resolved"]}

CreateLeads == InsertLeads \cup {[name |-> "Asha", source |-> ""]}

NextCreate ==
    \/ Tick
    \/ \E insertUser \in CreateUsers : createUser(insertUser)
    \/ \E application \in InsertLoanApplications : createLoanApplication(application)
    \/ \E partner \in InsertDsaPartners : createDsaPartner(partner)
    \/ \E lead \in CreateLeads : createLead(lead)
    \/ \E query \in InsertContactQueries : createContactQuery(query)

SpecCreate == Init /\ [][NextCreate]_vars

\* The update and assign operations of the five families, on identifiers that
\* exist and on identifiers that do not: leads are addressed by either
\* identifier, the other families by identifier 2, which is absent until a
\* second row of the family is created.
NextUpdate ==
    \/ createUser([username |-> "bob", email |-> "bob@jsmf.com",
                   password |-> Raw(<<1>>), fullName |-> "Bob"])
    \/ \E id \in {2} : updateUser(id, [fullName |-> "Robert"])
    \/ \E r \in BagToSet(pending) : updateUserResult(r)
    \/ createLoanApplication([userId |-> "u1", amount |-> 100])
    \/ \E id \in {2} : updateLoanApplication(id, [status |-> "approved"])
    \/ \E r \in BagToSet(pending) : updateLoanApplicationResult(r)
    \/ createDsaPartner([userId |-> "u1", city |-> "Bhopal"])
    \/ \E id \in {2} : updateDsaPartner(id, [kycStatus |-> "verified"])
    \/ \E r \in BagToSet(pending) : updateDsaPartnerResult(r)
    \/ createLead([name |-> "Asha"])
    \/ \E leadId \in Ids : assignLeadToDsa(leadId, "partner-42")
    \/ \E r \in BagToSet(pending) : assignLeadToDsaResult(r)
    \/ \E id \in Ids : updateLead(id, [status |-> "contacted"])
    \/ \E r \in BagToSet(pending) : updateLeadResult(r)
    \/ createContactQuery([message |-> "hello"])
    \/ \E id \in {2} : updateContactQuery(id, [status |-> "resolved"])
    \/ \E r \in BagToSet(pending) : updateContactQueryResult(r)

SpecUpdate == Init /\ [][NextUpdate]_vars

\* Loan applications, partners and leads under callers that pass any status.
LoanPatches == {[status |-> "approved"], [status |-> "bogus"], [status |-> NULL]}

PartnerPatches == {[kycStatus |-> "verified"], [kycStatus |-> "bogus"], [kycStatus |-> NULL]}

StatusPatches == {[status |-> "contacted"], [status |-> "bogus"], [status |-> NULL]}

NextStatus ==
    \/ \E application \in InsertLoanApplications : createLoanApplication(application)
    \/ \E updates \in LoanPatches : updateLoanApplication(1, updates)
    \/ \E r \in BagToSet(pending) : updateLoanApplicationResult(r)
    \/ \E partner \in InsertDsaPartners : createDsaPartner(partner)
    \/ \E updates \in PartnerPatches : updateDsaPartner(1, updates)
    \/ \E r \in BagToSet(pending) : updateDsaPartnerResult(r)
    \/ \E lead \in InsertLeads : createLead(lead)
    \/ assignLeadToDsa(1, "partner-42")
    \/ \E r \in BagToSet(pending) : assignLeadToDsaResult(r)
    \/ \E updates \in StatusPatches : updateLead(1, updates)
    \/ \E r \in BagToSet(pending) : updateLeadResult(r)

SpecStatus == Init /\ [][NextStatus]_vars

(***************************************************************************)
(* Properties                                                              *)
(***************************************************************************)
Admins == {i \in 1..Len(users) : users[i].username = "admin"}

AllStartsDone == \A p \in Starts : boot[p].pc = "done"

\* C1: in every reachable state the password stored for every user is a
\* one-way hash, never the text a caller supplied (bootstrap, createUser and
\* updateUser with a password among the partial fields included).
C1_StoredPasswordIsHash ==
    \A i \in 1..Len(users) : users[i].password.fmt = "$2b$10$"

\* C2: right after a successful createUser with username u and password p,
\* authenticateUser(u, p) returns the created user and authenticateUser(u, q)
\* returns null for every q other than p.
C2_AuthenticateAfterCreate ==
    [][\A insertUser \in InsertUsers :
          (createUser(insertUser) /\ ret'.status = "ok") =>
              /\ authenticateUserRows(insertUser.username, insertUser.password)'
                     = ret'.rows
              /\ \A q \in Plaintexts \ {insertUser.password} :
                     authenticateUserRows(insertUser.username, q)' = <<>>]_vars

\* C3 as claimed: once both process starts have run the bootstrap sequence,
\* in any interleaving, exactly one user named "admin" is stored and no
\* bootstrap failure left initializeDefaultUsers.
C3_ExactlyOneAdmin ==
    AllStartsDone =>
        /\ Cardinality(Admins) = 1
        /\ \A p \in Starts : boot[p].error # "propagated"

AdminEmailTaken ==
    \E i \in 1..Len(users) :
        users[i].email = "admin@jsmf.com" /\ users[i].username # "admin"

\* C3 as amended: once both process starts have run the bootstrap sequence,
\* in any interleaving, at most one user named "admin" is stored, exactly one
\* unless another user holds the email admin@jsmf.com, and no bootstrap
\* failure left initializeDefaultUsers.
C3_AtMostOneAdmin ==
    AllStartsDone =>
        /\ Cardinality(Admins) <= 1
        /\ ~AdminEmailTaken => Cardinality(Admins) = 1
        /\ \A p \in Starts : boot[p].error # "propagated"

\* C3 witness: both starts found no admin, both inserted, the loser's
\* uniqueness violation was caught and logged.
C3_RaceLost ==
    /\ AllStartsDone
    /\ \E p \in Starts : boot[p].error = "logged"
    /\ Cardinality(Admins) = 1
    /\ ~AdminEmailTaken

\* The table an update or assign request is aimed at.
TableOf(op) ==
    CASE op = "updateUser" -> users
      [] op = "updateLoanApplication" -> loanApplications
      [] op = "updateDsaPartner" -> dsaPartners
      [] op \in {"assignLeadToDsa", "updateLead"} -> leads
      [] op = "updateContactQuery" -> contactQueries

Tables == <<users, loanApplications, dsaPartners, leads, contactQueries>>

Matches(r) == {i \in 1..Len(TableOf(r.op)) : TableOf(r.op)[i].id = r.id}

\* The step in which the engine executes request r and its call ends.
Executes(r) == pending' = pending (-) SetToBag({r})

\* C4: an update or assign call whose identifier matches no stored entity of
\* its family ends in the NotFound error, with no value, and leaves every
\* stored entity as it was.
C4_NotFoundOnMiss ==
    [][\A r \in BagToSet(pending) :
          (Executes(r) /\ Matches(r) = {}) =>
              /\ ret' = [status |-> "NotFound", rows |-> <<>>]
              /\ Tables' = Tables]_vars

\* C4 witness: a call ended in NotFound while entities are stored.
C4_MissSeen == ret.status = "NotFound" /\ RowCount > 0

GenericUpdates ==
    {"updateUser", "updateLoanApplication", "updateDsaPartner", "updateLead"}

\* C5: a generic update on an existing identifier changes only the fields of
\* its SET clause (the caller's fields and the update timestamp), leaves every
\* other entity alone, and leaves the entity's update timestamp strictly later
\* than it was.
C5_UpdateFrameAndClock ==
    [][\A r \in BagToSet(pending) :
          (Executes(r) /\ r.op \in GenericUpdates /\ ret'.status = "ok") =>
              \A i \in 1..Len(TableOf(r.op)) :
                  LET old == TableOf(r.op)[i]
                      new == TableOf(r.op)'[i]
                  IN  IF old.id = r.id
                      THEN /\ \A f \in DOMAIN old \ DOMAIN r.set : new[f] = old[f]
                           /\ new.updatedAt > old.updatedAt
                      ELSE new = old]_vars

\* C6: the engine step of assignLeadToDsa writes the partner reference and
\* the non-null assignment timestamp of that call together, and no other step
\* of the call touches the lead: the call that only reached its await has
\* changed nothing.
C6_AssignIsOneWrite ==
    [][/\ \A r \in BagToSet(pending) :
             (Executes(r) /\ r.op = "assignLeadToDsa") =>
                 \A i \in Matches(r) :
                     /\ {"assignedDsaId", "assignedAt"} \subseteq DOMAIN r.set
                     /\ leads'[i].assignedDsaId = r.set.assignedDsaId
                     /\ leads'[i].assignedAt = r.set.assignedAt
                     /\ leads'[i].assignedAt # NullTime
       /\ \A i \in 1..Len(leads) :
             (\/ leads'[i].assignedDsaId # leads[i].assignedDsaId
              \/ leads'[i].assignedAt # leads[i].assignedAt) =>
                 \E r \in BagToSet(pending) : Executes(r) /\ r.id = leads[i].id]_vars

\* C6 witness: a lead carries the partner and the timestamp of an assign call
\* while another call on the same lead is in flight.
C6_AssignedWhileRacing ==
    \E i \in 1..Len(leads) :
        /\ leads[i].assignedDsaId = "partner-42"
        /\ leads[i].assignedAt # NullTime
        /\ \E r \in BagToSet(pending) : r.id = leads[i].id

\* C7: getLeadsByDsa(x) returns exactly the stored leads whose partner
\* reference is x, each once, and none whose reference is another partner or
\* null; a lead assigned by assignLeadToDsa is returned with the status "new"
\* of its creation and a non-null assignment timestamp.
C7_LeadsByDsaExact ==
    \A dsaId \in DsaIds :
        LET rows == getLeadsByDsaRows(dsaId)
            held == {i \in 1..Len(leads) : leads[i].assignedDsaId = dsaId}
        IN  /\ Len(rows) = Cardinality(held)
            /\ \A i \in held : \E k \in 1..Len(rows) : rows[k] = leads[i]
            /\ \A k \in 1..Len(rows) : rows[k].assignedDsaId = dsaId
            /\ dsaId = "partner-42" =>
                   \A k \in 1..Len(rows) :
                       rows[k].status = "new" /\ rows[k].assignedAt # NullTime

\* C7 witness: the read returned the one lead of partner-42, created without
\* a source, while another lead is stored with another or no partner.
C7_OneOfTwoReturned ==
    /\ Len(leads) = 2
    /\ Len(ret.rows) = 1
    /\ ret.rows = getLeadsByDsaRows("partner-42")
    /\ ret.rows[1].source = "website"
    /\ ret.rows[1].status = "new"
    /\ ret.rows[1].assignedAt # NullTime

\* C8: the entity a create operation returns is the row it stored, has an
\* identifier, and has its forced fields whatever the caller passed: a lead
\* status "new" (source "website" when none is passed), a loan application
\* status "pending", a partner KYC status "pending", a contact query status
\* "new", a user active = true (role "user" when none is passed).
C8_CreateForcesFields ==
    [][/\ \A lead \in CreateLeads :
             (createLead(lead) /\ ret'.status = "ok") =>
                 LET e == ret'.rows[1]
                 IN  /\ e = leads'[Len(leads')] /\ e.id > 0
                     /\ e.status = "new"
                     /\ "source" \notin DOMAIN lead => e.source = "website"
       /\ \A application \in InsertLoanApplications :
             (createLoanApplication(application) /\ ret'.status = "ok") =>
                 LET e == ret'.rows[1]
                 IN  /\ e = loanApplications'[Len(loanApplications')] /\ e.id > 0
                     /\ e.status = "pending"
       /\ \A partner \in InsertDsaPartners :
             (createDsaPartner(partner) /\ ret'.status = "ok") =>
                 LET e == ret'.rows[1]
                 IN  /\ e = dsaPartners'[Len(dsaPartners')] /\ e.id > 0
                     /\ e.kycStatus = "pending"
       /\ \A query \in InsertContactQueries :
             (createContactQuery(query) /\ ret'.status = "ok") =>
                 LET e == ret'.rows[1]
                 IN  /\ e = contactQueries'[Len(contactQueries')] /\ e.id > 0
                     /\ e.status = "new"
       /\ \A insertUser \in CreateUsers :
             (createUser(insertUser) /\ ret'.status = "ok") =>
                 LET e == ret'.rows[1]
                 IN  /\ e = users'[Len(users')] /\ e.id > 0
                     /\ e.isActive = TRUE
                     /\ "role" \notin DOMAIN insertUser => e.role = "user"]_vars

\* C8 witness: createLead was passed status "closed" and a source, and
\* returned the stored lead with status "new" and that source.
C8_CallerStatusOverridden ==
    /\ Len(leads) > 0
    /\ ret.rows = <<leads[Len(leads)]>>
    /\ ret.rows[1].source = "referral"
    /\ ret.rows[1].status = "new"

Racing(r1, r2) ==
    /\ r1.op \in {"assignLeadToDsa", "updateLead"}
    /\ r2.op \in {"assignLeadToDsa", "updateLead"}
    /\ r1.id = r2.id
    /\ r1 # r2 \/ CopiesIn(r1, pending) > 1

C10_PairInOrder ==
    \A r1, r2 \in BagToSet(pending) :
        Racing(r1, r2) =>
            LET first == Update("leads", leads, r1.set, r1.id).table
                second == Update("leads", first, r2.set, r2.id).table
            IN  \A i \in 1..Len(leads) :
                    IF leads[i].id = r1.id
                    THEN \A f \in DOMAIN leads[i] :
                            second[i][f] =
                                IF f \in DOMAIN r2.set THEN r2.set[f]
                                ELSE IF f \in DOMAIN r1.set THEN r1.set[f]
                                ELSE leads[i][f]
                    ELSE second[i] = leads[i]

\* C10: every update or assign call on a lead is applied by one engine step,
\* the write of its SET clause; and when two such calls on the same lead are
\* in flight, executing them in either order leaves, field by field, the
\* value of the later write where it supplies the field, else the value of
\* the earlier write where that one supplies it, else the stored value.
C10_LastWriteWins ==
    /\ [][\A r \in BagToSet(pending) :
             (Executes(r) /\ r.op \in {"assignLeadToDsa", "updateLead"}) =>
                 leads' = Update("leads", leads, r.set, r.id).table]_vars
    /\ []C10_PairInOrder

\* C10 witness: an assign and an update that both supply the partner
\* reference, with different values, are in flight on the same stored lead.
C10_TwoWritersOneField ==
    \E r1, r2 \in BagToSet(pending) :
        /\ Racing(r1, r2)
        /\ Matches(r1) # {}
        /\ r1.op = "assignLeadToDsa"
        /\ r2.op = "updateLead"
        /\ "assignedDsaId" \in DOMAIN r2.set
        /\ r2.set.assignedDsaId # r1.set.assignedDsaId

====
